---- MODULE Spec2Model ----
(***************************************************************************)
(* A model of ollama-bench: the benchmark run (runner.rs, benchmark.rs,    *)
(* ollama.rs) and the aggregation of samples into a summary (types.rs).    *)
(*                                                                         *)
(* f64 values are modelled as binary floating-point numbers m * 2^e with a *)
(* significand of MantBits bits and round-to-nearest, ties-to-even, after  *)
(* every operation, as IEEE-754 prescribes; f64 has 53 significand bits.   *)
(* The exponent range is not bounded: no value of the model comes near     *)
(* the f64 overflow threshold.                                             *)
(***************************************************************************)
EXTENDS Integers, Sequences, FiniteSets, TLC

\* ------------------------------------------------------------------ bounds
\* Significand bits of the modelled floating-point format.
MantBits == 8
\* Longest sample sequence handed to from_results in SpecAgg.
MaxSamples == 3

\* ------------------------------------------------------ floating point (f64)
Fin(m, e) == [k |-> "fin", m |-> m, e |-> e]
Zero == Fin(0, 0)
INFINITY == [k |-> "inf", m |-> 1, e |-> 0]
NEG_INFINITY == [k |-> "inf", m |-> -1, e |-> 0]
NAN == [k |-> "nan", m |-> 0, e |-> 0]

RECURSIVE BitLen(_)
BitLen(n) == IF n = 0 THEN 0 ELSE 1 + BitLen(n \div 2)

\* The float nearest to n * 2^e (n >= 0), ties to the even significand.
RoundInt(n, e) ==
    IF n = 0 THEN Zero
    ELSE LET b == BitLen(n) IN
         IF b <= MantBits
         THEN Fin(n * 2^(MantBits - b), e - (MantBits - b))
         ELSE LET k == b - MantBits
                  q == n \div 2^k
                  r == n % 2^k
                  half == 2^(k - 1)
                  q2 == IF r > half \/ (r = half /\ q % 2 = 1) THEN q + 1 ELSE q
              IN  IF q2 = 2^MantBits
                  THEN Fin(2^(MantBits - 1), e + k + 1)
                  ELSE Fin(q2, e + k)

FNeg(a) == [a EXCEPT !.m = -a.m]

RoundSigned(n, e) == IF n < 0 THEN FNeg(RoundInt(-n, e)) ELSE RoundInt(n, e)

\* `x as f64` for a non-negative integer x.
FromInt(i) == RoundInt(i, 0)

Abs(i) == IF i < 0 THEN -i ELSE i

is_nan(a) == a.k = "nan"
is_infinite(a) == a.k = "inf"
is_finite(a) == a.k = "fin"

\* a + b
FAdd(a, b) ==
    IF is_nan(a) \/ is_nan(b) THEN NAN
    ELSE IF is_infinite(a) /\ is_infinite(b) THEN (IF a.m = b.m THEN a ELSE NAN)
    ELSE IF is_infinite(a) THEN a
    ELSE IF is_infinite(b) THEN b
    ELSE IF a.m = 0 THEN b
    ELSE IF b.m = 0 THEN a
    ELSE LET hi == IF a.e >= b.e THEN a ELSE b
             lo == IF a.e >= b.e THEN b ELSE a
             d  == hi.e - lo.e
         IN  IF d > MantBits + 2 THEN hi
             ELSE RoundSigned(hi.m * 2^d + lo.m, lo.e)

\* a * b
FMul(a, b) ==
    IF is_nan(a) \/ is_nan(b) THEN NAN
    ELSE IF is_infinite(a) \/ is_infinite(b)
         THEN (IF a.m = 0 \/ b.m = 0 THEN NAN
               ELSE IF (a.m > 0) = (b.m > 0) THEN INFINITY ELSE NEG_INFINITY)
    ELSE RoundSigned(a.m * b.m, a.e + b.e)

\* a / b
FDiv(a, b) ==
    IF is_nan(a) \/ is_nan(b) THEN NAN
    ELSE IF is_infinite(a)
         THEN (IF is_infinite(b) THEN NAN
               ELSE IF (a.m > 0) = (b.m >= 0) THEN INFINITY ELSE NEG_INFINITY)
    ELSE IF is_infinite(b) THEN Zero
    ELSE IF b.m = 0
         THEN (IF a.m = 0 THEN NAN ELSE IF a.m > 0 THEN INFINITY ELSE NEG_INFINITY)
    ELSE IF a.m = 0 THEN Zero
    ELSE LET n   == Abs(a.m) * 2^(MantBits + 2)
             q   == n \div Abs(b.m)
             st  == IF n % Abs(b.m) = 0 THEN 0 ELSE 1
             mag == RoundInt(2 * q + st, a.e - b.e - MantBits - 3)
         IN  IF (a.m > 0) = (b.m > 0) THEN mag ELSE FNeg(mag)

\* a < b for positive finite a, b (significands are normalised)
PosLess(a, b) == a.e < b.e \/ (a.e = b.e /\ a.m < b.m)

\* a < b; false when either is NaN
FLess(a, b) ==
    IF is_nan(a) \/ is_nan(b) THEN FALSE
    ELSE IF is_infinite(a) THEN a.m < 0 /\ ~(is_infinite(b) /\ b.m < 0)
    ELSE IF is_infinite(b) THEN b.m > 0
    ELSE IF a.m = 0 THEN b.m > 0
    ELSE IF a.m > 0 THEN b.m > 0 /\ PosLess(a, b)
    ELSE b.m >= 0 \/ PosLess(FNeg(b), FNeg(a))

\* a <= b; false when either is NaN
FLeq(a, b) == ~is_nan(a) /\ ~is_nan(b) /\ ~FLess(b, a)

\* f64::min and f64::max: the other operand when one is NaN
FMin(a, b) == IF is_nan(a) THEN b ELSE IF is_nan(b) THEN a
              ELSE IF FLess(b, a) THEN b ELSE a
FMax(a, b) == IF is_nan(a) THEN b ELSE IF is_nan(b) THEN a
              ELSE IF FLess(a, b) THEN b ELSE a

\* iter().sum::<f64>(): a left fold of + from 0.0
RECURSIVE FSum(_)
FSum(xs) == IF Len(xs) = 0 THEN Zero
            ELSE FAdd(FSum(SubSeq(xs, 1, Len(xs) - 1)), xs[Len(xs)])

\* iter().cloned().fold(seed, f64::min) and fold(seed, f64::max)
RECURSIVE FoldMin(_, _)
FoldMin(seed, xs) == IF Len(xs) = 0 THEN seed
                     ELSE FMin(FoldMin(seed, SubSeq(xs, 1, Len(xs) - 1)), xs[Len(xs)])
RECURSIVE FoldMax(_, _)
FoldMax(seed, xs) == IF Len(xs) = 0 THEN seed
                     ELSE FMax(FoldMax(seed, SubSeq(xs, 1, Len(xs) - 1)), xs[Len(xs)])

\* ----------------------------------------------------------------- samples
\* BenchmarkResult. prompt, timestamp, total_duration_ms and the token counts
\* are carried by the program and read by nothing modelled here.
Sample(model, success, tps, ttft, error) ==
    [model |-> model, success |-> success, tokens_per_second |-> tps,
     time_to_first_token_ms |-> ttft, error |-> error]

\* Option<T>: None, or Some(x)
None == <<>>
Some(x) == <<x>>
unwrap_or(o, d) == IF o = None THEN d ELSE o[1]

\* ----------------------------------------------- ModelSummary::from_results
\* (mutant) failed samples are not filtered out
successful_results_all(results) == results

successful_results(results) == SelectSeq(results, LAMBDA r : r.success)

\* (mutant) only the successful samples are counted
total_tests_of_successes(results) == Len(SelectSeq(results, LAMBDA r : r.success))

\* results.len() as u32
total_tests_of(results) == Len(results)

\* (mutant) no guard against an empty sequence
success_rate_of_unguarded(n_success, total_tests) ==
    FDiv(FromInt(n_success), FromInt(total_tests))

success_rate_of(n_success, total_tests) ==
    IF total_tests > 0 THEN FDiv(FromInt(n_success), FromInt(total_tests)) ELSE Zero

mean_or_zero(xs) ==
    IF Len(xs) # 0 THEN FDiv(FSum(xs), FromInt(Len(xs))) ELSE Zero

\* (mutant) the seed of an empty fold is returned as it is
zero_if_infinite_keep(x) == x

zero_if_infinite(x) == IF is_infinite(x) THEN Zero ELSE x

from_results(model, results) ==
    LET succ   == successful_results(results)
        speeds == [i \in 1..Len(succ) |-> succ[i].tokens_per_second]
        ttfts  == [i \in 1..Len(succ) |-> FromInt(succ[i].time_to_first_token_ms)]
    IN  [model                 |-> model,
         total_tests           |-> total_tests_of(results),
         success_rate          |-> success_rate_of(Len(succ), total_tests_of(results)),
         avg_tokens_per_second |-> mean_or_zero(speeds),
         min_tokens_per_second |-> zero_if_infinite(FoldMin(INFINITY, speeds)),
         max_tokens_per_second |-> zero_if_infinite(FoldMax(NEG_INFINITY, speeds)),
         avg_ttft_ms           |-> mean_or_zero(ttfts)]

\* ------------------------------------------------------------------ results
\* Result<T>: Ok(v) or Err(e), e a BenchmarkError with its argument.
Ok(v) == [ok |-> TRUE, val |-> Some(v), err |-> "", arg |-> ""]
Err(e, a) == [ok |-> FALSE, val |-> None, err |-> e, arg |-> a]

\* --------------------------------------------------------- bounds of a run
\* Longest model list and largest valid iteration count of a run.
MaxModels == 2
MaxIter == 2
\* Most generation requests of one run (Len(models) * iterations).
MaxGen == 4
\* Most generation requests of one run that get another reply than a success.
MaxFaults == 1

\* ------------------------------------------------------------ OllamaClient
BaseUrl == "http://localhost:11434"

\* What the server (or the transport) answers to GET /api/tags: a 2xx response
\* (bad_json: one whose body is no model list), another response, or no response.
TagsReplies == {"2xx", "non2xx", "bad_json", "connect_err", "timeout", "other_err"}
\* health_check reads the status alone.
HealthReplies == {"2xx", "non2xx", "connect_err", "timeout"}

\* impl From<reqwest::Error> for BenchmarkError
from_reqwest(o) ==
    IF o = "connect_err" THEN Err("OllamaNotRunning", "")
    ELSE IF o = "timeout" THEN Err("NetworkTimeout", "30")
    ELSE Err("ConnectionFailed", "reqwest")

\* (mutant) a transport error of the health check is swallowed
health_check_swallow(o) ==
    IF o = "2xx" THEN Ok(TRUE) ELSE Ok(FALSE)

health_check(o) ==
    IF o \in {"2xx", "bad_json"} THEN Ok(TRUE)
    ELSE IF o = "non2xx" THEN Ok(FALSE)
    ELSE IF o = "connect_err" THEN Err("OllamaNotRunning", "")
    ELSE Err("ConnectionFailed", BaseUrl)

\* served: the names the server lists
list_models(o, served) ==
    IF o = "2xx" THEN Ok(served)
    ELSE IF o = "non2xx" THEN Err("ConnectionFailed", "HTTP status from Ollama")
    ELSE from_reqwest(o)

\* (mutant) every model of a listing that could be read passes
validate_model_any(model, o, served) ==
    LET models == list_models(o, served)
    IN  IF models.ok THEN Ok(TRUE) ELSE models

validate_model(model, o, served) ==
    LET models == list_models(o, served)
    IN  IF models.ok THEN Ok(model \in models.val[1]) ELSE models

\* A reply to POST /api/generate: a transport error, or a response with its
\* status and body; a 2xx body is JSON (json: the OllamaGenerateResponse) or not.
Reply(kind, status, body, json) ==
    [kind |-> kind, status |-> status, body |-> body, json |-> json]

GenResponse(pec, ped, ec, ed) ==
    [prompt_eval_count |-> pec, prompt_eval_duration |-> ped,
     eval_count |-> ec, eval_duration |-> ed]

NoJson == GenResponse(None, None, None, None)

is_success(status) == status \in 200..299

\* error_text.contains("model")
BodiesNamingModel == {"model 'x' not found, try pulling it first",
                      "model runner has unexpectedly stopped"}
contains_model(body) == body \in BodiesNamingModel

\* (mutant) the diagnostic of a failed sample is dropped
failed_sample_without_error(model, error) == Sample(model, FALSE, Zero, 0, None)

failed_sample(model, error) == Sample(model, FALSE, Zero, 0, Some(error))

\* `x as u32 > 0` and `(x as u32) as f64` for an i32 x: a negative x wraps to 2^32 + x
u32_positive(x) == x # 0
u32_as_f64(x) ==
    IF x >= 0 THEN FromInt(x)
    ELSE FAdd(Fin(2^(MantBits - 1), 32 - (MantBits - 1)), RoundSigned(x, 0))

time_to_first_token_ms(prompt_eval_duration) ==
    IF prompt_eval_duration > 0 THEN prompt_eval_duration \div 1000000 ELSE 0

tokens_per_second(eval_count, eval_duration) ==
    IF eval_duration > 0 /\ u32_positive(eval_count)
    THEN FDiv(FMul(u32_as_f64(eval_count), FromInt(1000000000)), FromInt(eval_duration))
    ELSE Zero

\* generate, once send() returned a response (ollama.rs 97-173)
generate_response(model, reply) ==
    IF ~is_success(reply.status)
    THEN (IF reply.status = 404 \/ contains_model(reply.body)
          THEN Err("ModelNotFound", model)
          ELSE Ok(failed_sample(model, "HTTP error")))
    ELSE IF reply.body # "json"
    THEN Ok(failed_sample(model, "Failed to parse response"))
    ELSE LET r == reply.json
         IN  Ok(Sample(model, TRUE,
                       tokens_per_second(unwrap_or(r.eval_count, 0),
                                         unwrap_or(r.eval_duration, 0)),
                       time_to_first_token_ms(unwrap_or(r.prompt_eval_duration, 0)),
                       None))

\* (mutant) a send() error is propagated with `?` instead of becoming a sample
generate_propagate(model, reply) ==
    IF reply.kind # "response"
    THEN from_reqwest(reply.kind)
    ELSE generate_response(model, reply)

\* (mutant) a non-2xx response never escalates: it always becomes a sample
generate_never_escalates(model, reply) ==
    IF reply.kind # "response" THEN Ok(failed_sample(model, reply.kind))
    ELSE IF ~is_success(reply.status) THEN Ok(failed_sample(model, "HTTP error"))
    ELSE generate_response(model, reply)

generate(model, reply) ==
    IF reply.kind # "response"
    THEN Ok(failed_sample(model, reply.kind))
    ELSE generate_response(model, reply)

\* The replies a generation request gets in a run.
GenReplies ==
    { Reply("connect_err", 0, "", NoJson),
      Reply("timeout", 0, "", NoJson),
      Reply("response", 404, "not found", NoJson),
      Reply("response", 500, "model 'x' not found, try pulling it first", NoJson),
      Reply("response", 500, "model runner has unexpectedly stopped", NoJson),
      Reply("response", 500, "internal error", NoJson),
      Reply("response", 200, "bad_json", NoJson),
      Reply("response", 200, "json",
            GenResponse(Some(10), Some(200000000), Some(25), Some(1000000000))) }

\* --------------------------------------------------------------- variables
VARIABLES
    cli,          \* the parsed command line: models, iterations, quiet, export
    served,       \* the model names the server lists
    pc,           \* where the run is
    vi,           \* benchmark_models: 1-based position of the pre-flight loop
    idx,          \* benchmark_models: idx of the model loop (0-based)
    iteration,    \* benchmark_single_model: iteration (0-based)
    results,      \* benchmark_single_model: the samples of the current model
    all_results,  \* benchmark_models: (model, samples) of the completed models
    summaries,    \* what benchmark_models returned
    ret,          \* what BenchmarkRunner::run returned: None while it runs
    exit_code,    \* the process's exit code: -1 while it runs
    inflight,     \* generation requests sent and not yet answered
    log,          \* everything the run did that can be observed, in order
    aggIn,        \* SpecAgg: the samples handed to from_results
    aggOut,       \* SpecAgg: the summary it returned
    cmpIn,        \* SpecCmp: the summaries handed to the comparator
    cmpWinner,    \* SpecCmp: what calculate_winner returned
    cmpDiff,      \* SpecCmp: a call of calculate_performance_difference
    genIn,        \* SpecGen: the reply a generation request got
    genOut,       \* SpecGen: what generate returned for it
    twin          \* SpecSink: what the same run did with the other progress sink

runVars == <<cli, served, pc, vi, idx, iteration, results, all_results,
             summaries, ret, exit_code, inflight, log>>
aggVars == <<aggIn, aggOut>>
cmpVars == <<cmpIn, cmpWinner, cmpDiff>>
genVars == <<genIn, genOut>>
vars == <<runVars, aggVars, cmpVars, genVars, twin>>

\* One observable effect. ch: "sink" (a call of the ProgressReporter), "http"
\* (a request or its answer), "stdout", "stderr", "file", "sleep". n is the
\* 1-based number of the model the run is at (0 outside the model loop).
Ev(ch, ev, model, n, a, b, val) ==
    [ch |-> ch, ev |-> ev, model |-> model, n |-> n, a |-> a, b |-> b, val |-> val]

\* A call of the progress sink, and what the sink does with it: TerminalProgress
\* (built when not quiet) prints, QuietProgress does nothing.
SinkCall(ev, model, n, a, b) ==
    <<Ev("sink", ev, model, n, a, b, None)>>
    \o (IF cli.quiet THEN <<>> ELSE <<Ev("stdout", ev, model, n, a, b, None)>>)

\* --------------------------------------------------------------- the inputs
ValidNames == {"a", "b"}
ModelNames == ValidNames \cup {"", "a b"}
ModelLists == UNION {[1..n -> ModelNames] : n \in 0..MaxModels}
IterChoices == (0..MaxIter) \cup {1001}
ExportChoices == {None, Some("out.json"), Some("out.txt")}

RunInit ==
    /\ cli \in [models : ModelLists, iterations : IterChoices,
                quiet : BOOLEAN, export : ExportChoices]
    /\ (cli.iterations > 1000 \/ Len(cli.models) * cli.iterations <= MaxGen)
    /\ served \in SUBSET ValidNames
    /\ pc = "run"
    /\ vi = 1
    /\ idx = 0
    /\ iteration = 0
    /\ results = <<>>
    /\ all_results = <<>>
    /\ summaries = <<>>
    /\ ret = None
    /\ exit_code = -1
    /\ inflight = 0
    /\ log = <<>>

\* ------------------------------------------------------- Cli and the names
\* Cli::validate. temperature, max_tokens, timeout and ollama_url keep their
\* (valid) defaults in every run of the model.
\* (mutant) zero iterations pass
cli_validate_accepts_zero(c) ==
    IF c.iterations > 1000 THEN Err("ConfigError", "Iterations must be 1000 or less")
    ELSE IF c.models = <<>> THEN Err("ConfigError", "At least one model must be specified")
    ELSE Ok("unit")

cli_validate(c) ==
    IF c.iterations = 0 THEN Err("ConfigError", "Iterations must be greater than 0")
    ELSE IF c.iterations > 1000 THEN Err("ConfigError", "Iterations must be 1000 or less")
    ELSE IF c.models = <<>> THEN Err("ConfigError", "At least one model must be specified")
    ELSE Ok("unit")

validate_model_name(model) ==
    IF model = "" THEN Err("InvalidModel", "empty model name")
    ELSE IF model \notin ValidNames THEN Err("InvalidModel", model)
    ELSE Ok("unit")

\* runner.rs 24-30: the first failure of validate, then of the names in order
run_validate(c) ==
    LET v   == cli_validate(c)
        bad == {i \in 1..Len(c.models) : ~validate_model_name(c.models[i]).ok}
    IN  IF ~v.ok THEN v
        ELSE IF bad # {}
             THEN validate_model_name(c.models[CHOOSE i \in bad : \A j \in bad : i <= j])
        ELSE Ok("unit")

\* ------------------------------------------------------ BenchmarkRunner::run
RunValidate ==
    /\ pc = "run"
    /\ LET r == run_validate(cli)
       IN  /\ pc' = IF r.ok THEN "health_check" ELSE "main"
           /\ ret' = IF r.ok THEN ret ELSE Some(r)
    /\ UNCHANGED <<aggVars, cmpVars, genVars, twin, cli, served, vi, idx, iteration, results, all_results,
                   summaries, exit_code, inflight, log>>

\* (mutant) the run consults the boolean: a non-success status aborts
HealthCheck_consults_status ==
    /\ pc = "health_check"
    /\ \E o \in HealthReplies :
         LET r == IF o = "non2xx" THEN Err("OllamaNotRunning", "")
                      ELSE health_check(o)
         IN  /\ log' = log
                   \o (IF cli.quiet THEN <<>>
                       ELSE <<Ev("stdout", "checking_connection", "", 0, 0, 0, None)>>)
                   \o <<Ev("http", "health_check", "", 0, 0, 0, Some(o))>>
             /\ pc' = IF r.ok THEN "benchmark_models" ELSE "main"
             /\ ret' = IF r.ok THEN ret ELSE Some(r)
    /\ UNCHANGED <<aggVars, cmpVars, genVars, twin, cli, served, vi, idx, iteration, results, all_results,
                   summaries, exit_code, inflight>>

HealthCheck ==
    /\ pc = "health_check"
    /\ \E o \in HealthReplies :
         LET r == health_check(o)
         IN  /\ log' = log
                   \o (IF cli.quiet THEN <<>>
                       ELSE <<Ev("stdout", "checking_connection", "", 0, 0, 0, None)>>)
                   \o <<Ev("http", "health_check", "", 0, 0, 0, Some(o))>>
             /\ pc' = IF r.ok THEN "benchmark_models" ELSE "main"
             /\ ret' = IF r.ok THEN ret ELSE Some(r)
    /\ UNCHANGED <<aggVars, cmpVars, genVars, twin, cli, served, vi, idx, iteration, results, all_results,
                   summaries, exit_code, inflight>>

\* ---------------------------------------------- Benchmarker::benchmark_models
BenchmarkModels ==
    /\ pc = "benchmark_models"
    /\ log' = log \o SinkCall("print_info", "", 0, 0, 0)
    /\ vi' = 1
    /\ pc' = "validate"
    /\ UNCHANGED <<aggVars, cmpVars, genVars, twin, cli, served, idx, iteration, results, all_results,
                   summaries, ret, exit_code, inflight>>

ValidateModel ==
    /\ pc = "validate"
    /\ \E o \in TagsReplies :
         LET model == cli.models[vi]
             r     == validate_model(model, o, served)
         IN  /\ log' = Append(log, Ev("http", "list_models", model, 0, 0, 0, Some(o)))
             /\ IF ~r.ok
                THEN /\ ret' = Some(r)
                     /\ pc' = "main"
                     /\ vi' = vi
                ELSE IF ~r.val[1]
                THEN /\ ret' = Some(Err("ModelNotFound", model))
                     /\ pc' = "main"
                     /\ vi' = vi
                ELSE /\ ret' = ret
                     /\ vi' = vi + 1
                     /\ pc' = IF vi = Len(cli.models) THEN "start_model" ELSE "validate"
    /\ idx' = 0
    /\ UNCHANGED <<aggVars, cmpVars, genVars, twin, cli, served, iteration, results, all_results,
                   summaries, exit_code, inflight>>

\* ---------------------------------------- Benchmarker::benchmark_single_model
\* (mutant) a failure of the Terminal sink to print is propagated and ends the run
StartModel_terminal_fails ==
    /\ pc = "start_model"
    /\ results' = <<>>
    /\ iteration' = 0
    /\ log' = log \o SinkCall("start_model", cli.models[idx + 1], idx + 1,
                              idx + 1, Len(cli.models))
    /\ pc' = IF ~cli.quiet THEN "main"
             ELSE IF 0 < cli.iterations THEN "iterate" ELSE "complete_model"
    /\ ret' = IF ~cli.quiet THEN Some(Err("IoError", "stdout")) ELSE ret
    /\ UNCHANGED <<aggVars, cmpVars, genVars, twin, cli, served, vi, idx, all_results,
                   summaries, exit_code, inflight>>

StartModel ==
    /\ pc = "start_model"
    /\ results' = <<>>
    /\ iteration' = 0
    /\ log' = log \o SinkCall("start_model", cli.models[idx + 1], idx + 1,
                              idx + 1, Len(cli.models))
    /\ pc' = IF 0 < cli.iterations THEN "iterate" ELSE "complete_model"
    /\ UNCHANGED <<aggVars, cmpVars, genVars, twin, cli, served, vi, idx, all_results, summaries, ret,
                   exit_code, inflight>>

\* (mutant) the progress event carries the 0-based iteration
IterBegin_zero_based ==
    /\ pc = "iterate"
    /\ log' = log
          \o SinkCall("update_progress", cli.models[idx + 1], idx + 1,
                      iteration, cli.iterations)
          \o <<Ev("http", "generate", cli.models[idx + 1], idx + 1, 0, 0, None)>>
    /\ inflight' = inflight + 1
    /\ pc' = "generate"
    /\ UNCHANGED <<aggVars, cmpVars, genVars, twin, cli, served, vi, idx, iteration, results, all_results,
                   summaries, ret, exit_code>>

\* (mutant) the request is sent without awaiting its answer before the next one
IterBegin_no_await ==
    /\ pc = "iterate"
    /\ log' = log
          \o SinkCall("update_progress", cli.models[idx + 1], idx + 1,
                      iteration + 1, cli.iterations)
          \o <<Ev("http", "generate", cli.models[idx + 1], idx + 1, 0, 0, None)>>
    /\ inflight' = inflight + 1
    /\ IF iteration < cli.iterations - 1
       THEN pc' = "iterate" /\ iteration' = iteration + 1
       ELSE pc' = "generate" /\ iteration' = iteration
    /\ UNCHANGED <<aggVars, cmpVars, genVars, twin, cli, served, vi, idx, results, all_results,
                   summaries, ret, exit_code>>

IterBegin ==
    /\ pc = "iterate"
    /\ log' = log
          \o SinkCall("update_progress", cli.models[idx + 1], idx + 1,
                      iteration + 1, cli.iterations)
          \o <<Ev("http", "generate", cli.models[idx + 1], idx + 1, 0, 0, None)>>
    /\ inflight' = inflight + 1
    /\ pc' = "generate"
    /\ UNCHANGED <<aggVars, cmpVars, genVars, twin, cli, served, vi, idx, iteration, results, all_results,
                   summaries, ret, exit_code>>

\* The replies the run got so far that were no success.
Faults ==
    Cardinality({i \in 1..Len(log) : log[i].ev = "generate_reply"
                                     /\ log[i].val[1].body # "json"})

\* (mutant) an error of generate ends the model loop and the models completed
\* so far are summarised and printed
GenerateReturn_partial ==
    /\ pc = "generate"
    /\ \E reply \in GenReplies :
         LET model == cli.models[idx + 1]
             r     == generate(model, reply)
         IN  /\ reply.body = "json" \/ Faults < MaxFaults
             /\ log' = Append(log, Ev("http", "generate_reply", model, idx + 1,
                                      0, 0, Some(reply)))
             /\ IF ~r.ok
                THEN /\ ret' = Some(r)
                     /\ pc' = "summaries"
                     /\ UNCHANGED <<results, iteration>>
                ELSE /\ ret' = ret
                     /\ results' = Append(results, r.val[1])
                     /\ IF iteration < cli.iterations - 1
                        THEN pc' = "iter_sleep" /\ iteration' = iteration
                        ELSE pc' = "complete_model" /\ iteration' = iteration + 1
    /\ inflight' = inflight - 1
    /\ UNCHANGED <<aggVars, cmpVars, genVars, twin, cli, served, vi, idx, all_results, summaries,
                   exit_code>>

GenerateReturn ==
    /\ pc = "generate"
    /\ \E reply \in GenReplies :
         LET model == cli.models[idx + 1]
             r     == generate(model, reply)
         IN  /\ reply.body = "json" \/ Faults < MaxFaults
             /\ log' = Append(log, Ev("http", "generate_reply", model, idx + 1,
                                      0, 0, Some(reply)))
             /\ IF ~r.ok
                THEN /\ ret' = Some(r)
                     /\ pc' = "main"
                     /\ UNCHANGED <<results, iteration>>
                ELSE /\ ret' = ret
                     /\ results' = Append(results, r.val[1])
                     /\ IF iteration < cli.iterations - 1
                        THEN pc' = "iter_sleep" /\ iteration' = iteration
                        ELSE pc' = "complete_model" /\ iteration' = iteration + 1
    /\ inflight' = inflight - 1
    /\ UNCHANGED <<aggVars, cmpVars, genVars, twin, cli, served, vi, idx, all_results, summaries, exit_code>>

\* (mutant) the loop goes on to the next iteration without the delay
IterSleep_skip ==
    /\ pc = "iter_sleep"
    /\ iteration' = iteration + 1
    /\ pc' = "iterate"
    /\ UNCHANGED <<aggVars, cmpVars, genVars, twin, cli, served, vi, idx, results, all_results, summaries,
                   ret, exit_code, inflight, log>>

\* (mutant) the loop variable does not advance after the pacing delay
IterSleep_repeat ==
    /\ pc = "iter_sleep"
    /\ log' = Append(log, Ev("sleep", "sleep", "", idx + 1, 100, 0, None))
    /\ iteration' = iteration
    /\ pc' = "iterate"
    /\ UNCHANGED <<aggVars, cmpVars, genVars, twin, cli, served, vi, idx, results, all_results, summaries,
                   ret, exit_code, inflight>>

IterSleep ==
    /\ pc = "iter_sleep"
    /\ log' = Append(log, Ev("sleep", "sleep", "", idx + 1, 100, 0, None))
    /\ iteration' = iteration + 1
    /\ pc' = "iterate"
    /\ UNCHANGED <<aggVars, cmpVars, genVars, twin, cli, served, vi, idx, results, all_results, summaries,
                   ret, exit_code, inflight>>

\* (mutant) the completed model is put in front of the earlier ones
CompleteModel_prepend ==
    /\ pc = "complete_model"
    /\ log' = log \o SinkCall("complete_model", cli.models[idx + 1], idx + 1, 0, 0)
    /\ all_results' = <<<<cli.models[idx + 1], results>>>> \o all_results
    /\ IF idx < Len(cli.models) - 1
       THEN pc' = "model_sleep" /\ idx' = idx
       ELSE pc' = "summaries" /\ idx' = idx + 1
    /\ UNCHANGED <<aggVars, cmpVars, genVars, twin, cli, served, vi, iteration, results, summaries, ret,
                   exit_code, inflight>>

\* (mutant) the summary of the completed model is built at once
CompleteModel_summarise ==
    /\ pc = "complete_model"
    /\ log' = log \o SinkCall("complete_model", cli.models[idx + 1], idx + 1, 0, 0)
    /\ all_results' = Append(all_results, <<cli.models[idx + 1], results>>)
    /\ summaries' = Append(summaries, from_results(cli.models[idx + 1], results))
    /\ IF idx < Len(cli.models) - 1
       THEN pc' = "model_sleep" /\ idx' = idx
       ELSE pc' = "summaries" /\ idx' = idx + 1
    /\ UNCHANGED <<aggVars, cmpVars, genVars, twin, cli, served, vi, iteration, results, ret,
                   exit_code, inflight>>

CompleteModel ==
    /\ pc = "complete_model"
    /\ log' = log \o SinkCall("complete_model", cli.models[idx + 1], idx + 1, 0, 0)
    /\ all_results' = Append(all_results, <<cli.models[idx + 1], results>>)
    /\ IF idx < Len(cli.models) - 1
       THEN pc' = "model_sleep" /\ idx' = idx
       ELSE pc' = "summaries" /\ idx' = idx + 1
    /\ UNCHANGED <<aggVars, cmpVars, genVars, twin, cli, served, vi, iteration, results, summaries, ret,
                   exit_code, inflight>>

ModelSleep ==
    /\ pc = "model_sleep"
    /\ log' = Append(log, Ev("sleep", "sleep", "", idx + 1, 500, 0, None))
    /\ idx' = idx + 1
    /\ pc' = "start_model"
    /\ UNCHANGED <<aggVars, cmpVars, genVars, twin, cli, served, vi, iteration, results, all_results, summaries,
                   ret, exit_code, inflight>>

Summarise ==
    /\ pc = "summaries"
    /\ summaries' = [i \in 1..Len(all_results) |->
                        from_results(all_results[i][1], all_results[i][2])]
    /\ pc' = "output_results"
    /\ UNCHANGED <<aggVars, cmpVars, genVars, twin, cli, served, vi, idx, iteration, results, all_results, ret,
                   exit_code, inflight, log>>

\* -------------------------------------------- run, after benchmark_models
OutputResults ==
    /\ pc = "output_results"
    /\ log' = Append(log, Ev("stdout", "output_results", "", 0, Len(summaries), 0, None))
    /\ pc' = IF cli.export # None THEN "export_results" ELSE "main"
    /\ ret' = IF cli.export # None THEN ret ELSE Some(Ok("unit"))
    /\ UNCHANGED <<aggVars, cmpVars, genVars, twin, cli, served, vi, idx, iteration, results, all_results,
                   summaries, exit_code, inflight>>

\* io: whether the file can be created and written
export_results(path, io) ==
    IF path \notin {"out.json", "out.csv", "out.md"}
    THEN Err("ConfigError", "Export file must have .json, .csv, or .md extension")
    ELSE IF io # "ok" THEN Err("IoError", io)
    ELSE Ok("unit")

ExportResults ==
    /\ pc = "export_results"
    /\ \E io \in {"ok", "io_err"} :
         LET r == export_results(cli.export[1], io)
         IN  /\ ret' = Some(r)
             /\ log' = log \o (IF r.ok
                               THEN <<Ev("file", "export", cli.export[1], 0,
                                         Len(summaries), 0, None)>>
                                    \o (IF cli.quiet THEN <<>>
                                        ELSE <<Ev("stdout", "exported", cli.export[1],
                                                  0, 0, 0, None)>>)
                               ELSE <<>>)
    /\ pc' = "main"
    /\ UNCHANGED <<aggVars, cmpVars, genVars, twin, cli, served, vi, idx, iteration, results, all_results,
                   summaries, exit_code, inflight>>

\* main.rs 23-26
Main ==
    /\ pc = "main"
    /\ exit_code' = IF ret[1].ok THEN 0 ELSE 1
    /\ log' = log \o (IF ret[1].ok THEN <<>>
                      ELSE <<Ev("stderr", "error", ret[1].arg, 0, 0, 0, None)>>)
    /\ pc' = "done"
    /\ UNCHANGED <<aggVars, cmpVars, genVars, twin, cli, served, vi, idx, iteration, results, all_results,
                   summaries, ret, inflight>>

Init ==
    /\ RunInit
    /\ aggIn = <<>> /\ aggOut = None
    /\ cmpIn = <<>> /\ cmpWinner = None /\ cmpDiff = None
    /\ genIn = None /\ genOut = None /\ twin = None

Next ==
    \/ RunValidate \/ HealthCheck \/ BenchmarkModels \/ ValidateModel
    \/ StartModel \/ IterBegin \/ GenerateReturn \/ IterSleep
    \/ CompleteModel \/ ModelSleep \/ Summarise
    \/ OutputResults \/ ExportResults \/ Main

Spec == Init /\ [][Next]_vars

\* run is one async task that awaits each client call and each pacing delay in
\* turn. When every one of them returns, control leaves each position short of
\* the end: pc, or inside the validation loop the index vi, moves on. Where it
\* moves to is what [Next]_vars says; every position short of "done" has a step.
Locations ==
    {"run", "health_check", "benchmark_models", "validate", "start_model",
     "iterate", "generate", "iter_sleep", "complete_model", "model_sleep",
     "summaries", "output_results", "export_results", "main", "done"}

Advance ==
    /\ pc # "done"
    /\ pc' \in Locations
    /\ vi' \in 1..(MaxModels + 1)

SpecLive == Init /\ [][Next]_vars /\ WF_<<pc, vi>>(Advance)

\* ------------------------------------- SpecAgg: from_results on any sequence
\* Throughputs and first-token times the samples are drawn from.
TpsVals == {0, 25, 30, 89, 200}
TtftVals == {0, 150, 200}

SampleInputs ==
    {Sample("m", FALSE, Zero, 0, Some("Failed"))}
    \cup {Sample("m", TRUE, FromInt(t), f, None) : t \in TpsVals, f \in TtftVals}

\* The run does not start in SpecAgg: its variables stay as constructed.
AggInit ==
    /\ cli = [models |-> <<>>, iterations |-> 0, quiet |-> TRUE, export |-> None]
    /\ served = {}
    /\ pc = "run" /\ vi = 1 /\ idx = 0 /\ iteration = 0
    /\ results = <<>> /\ all_results = <<>> /\ summaries = <<>>
    /\ ret = None /\ exit_code = -1 /\ inflight = 0 /\ log = <<>>
    /\ aggIn = <<>>
    /\ aggOut = None
    /\ cmpIn = <<>> /\ cmpWinner = None /\ cmpDiff = None
    /\ genIn = None /\ genOut = None /\ twin = None

AggPush ==
    /\ aggOut = None
    /\ Len(aggIn) < MaxSamples
    /\ \E s \in SampleInputs : aggIn' = Append(aggIn, s)
    /\ UNCHANGED <<aggOut, runVars, cmpVars, genVars, twin>>

AggCall ==
    /\ aggOut = None
    /\ aggOut' = Some(from_results("m", aggIn))
    /\ UNCHANGED <<aggIn, runVars, cmpVars, genVars, twin>>

AggNext == AggPush \/ AggCall

SpecAgg == AggInit /\ [][AggNext]_vars

\* --------------------------------------------------- the comparator (f64)
\* a - b
FSub(a, b) == FAdd(a, FNeg(b))

\* a > b; false when either is NaN
FGreater(a, b) == FLess(b, a)

\* f64::partial_cmp: None when either is NaN
partial_cmp(a, b) ==
    IF is_nan(a) \/ is_nan(b) THEN None
    ELSE IF FLess(a, b) THEN Some("Less")
    ELSE IF FLess(b, a) THEN Some("Greater")
    ELSE Some("Equal")

\* The comparison calculate_winner hands to max_by.
compare_by_throughput(a, b) ==
    unwrap_or(partial_cmp(a.avg_tokens_per_second, b.avg_tokens_per_second), "Equal")

\* Iterator::max_by over the elements of xs at the positions is, in order: a
\* reduce that keeps the accumulated element only when it compares Greater, so
\* the last of several equal maxima is returned. The result is the position of
\* the element (the code returns a reference into the slice).
RECURSIVE max_by(_, _)
max_by(xs, is) ==
    IF Len(is) = 0 THEN None
    ELSE IF Len(is) = 1 THEN Some(is[1])
    ELSE LET x == max_by(xs, SubSeq(is, 1, Len(is) - 1))[1]
             y == is[Len(is)]
         IN  IF compare_by_throughput(xs[x], xs[y]) = "Greater" THEN Some(x) ELSE Some(y)

\* (mutant) summaries without a successful sample take part
calculate_winner_unfiltered(sums) ==
    IF sums = <<>> THEN None
    ELSE max_by(sums, [i \in 1..Len(sums) |-> i])

\* .iter().filter(|s| s.success_rate > 0.0).max_by(..)
calculate_winner(sums) ==
    IF sums = <<>> THEN None
    ELSE max_by(sums,
                SelectSeq([i \in 1..Len(sums) |-> i],
                          LAMBDA i : FGreater(sums[i].success_rate, Zero)))

\* (mutant) no guard against a zero denominator
calculate_performance_difference_unguarded(winner, other) ==
    <<FMul(FDiv(FSub(winner.avg_tokens_per_second, other.avg_tokens_per_second),
                other.avg_tokens_per_second), FromInt(100)),
      FMul(FDiv(FSub(other.avg_ttft_ms, winner.avg_ttft_ms),
                other.avg_ttft_ms), FromInt(100))>>

\* (speed_diff, ttft_diff)
calculate_performance_difference(winner, other) ==
    <<IF FGreater(other.avg_tokens_per_second, Zero)
      THEN FMul(FDiv(FSub(winner.avg_tokens_per_second, other.avg_tokens_per_second),
                     other.avg_tokens_per_second), FromInt(100))
      ELSE Zero,
      IF FGreater(other.avg_ttft_ms, Zero)
      THEN FMul(FDiv(FSub(other.avg_ttft_ms, winner.avg_ttft_ms),
                     other.avg_ttft_ms), FromInt(100))
      ELSE Zero>>

\* ------------------------- SpecCmp: the comparator on any summary sequence
\* Longest summary sequence handed to the comparator in SpecCmp.
MaxSummaries == 3

\* A summary as from_results builds it from samples of one throughput and one
\* first-token time (rate > 0), or from failed samples alone (rate = 0).
Summary(rate, tps, ttft) ==
    [model                 |-> "m",
     total_tests           |-> 1,
     success_rate          |-> FromInt(rate),
     avg_tokens_per_second |-> FromInt(tps),
     min_tokens_per_second |-> FromInt(tps),
     max_tokens_per_second |-> FromInt(tps),
     avg_ttft_ms           |-> FromInt(ttft)]

CmpTpsVals == {0, 25, 30}
CmpTtftVals == {0, 150, 200}

SummaryInputs ==
    {Summary(0, 0, 0)} \cup {Summary(1, t, f) : t \in CmpTpsVals, f \in CmpTtftVals}

CmpInit ==
    /\ cli = [models |-> <<>>, iterations |-> 0, quiet |-> TRUE, export |-> None]
    /\ served = {}
    /\ pc = "run" /\ vi = 1 /\ idx = 0 /\ iteration = 0
    /\ results = <<>> /\ all_results = <<>> /\ summaries = <<>>
    /\ ret = None /\ exit_code = -1 /\ inflight = 0 /\ log = <<>>
    /\ aggIn = <<>> /\ aggOut = None
    /\ cmpIn = <<>> /\ cmpWinner = None /\ cmpDiff = None
    /\ genIn = None /\ genOut = None /\ twin = None

CmpPush ==
    /\ cmpWinner = None /\ cmpDiff = None
    /\ Len(cmpIn) < MaxSummaries
    /\ \E s \in SummaryInputs : cmpIn' = Append(cmpIn, s)
    /\ UNCHANGED <<cmpWinner, cmpDiff, runVars, aggVars, genVars, twin>>

CmpWinner ==
    /\ cmpWinner = None
    /\ cmpWinner' = Some(calculate_winner(cmpIn))
    /\ UNCHANGED <<cmpIn, cmpDiff, runVars, aggVars, genVars, twin>>

\* calculate_performance_difference on two summaries of the input
CmpDifference ==
    /\ cmpDiff = None
    /\ \E w \in 1..Len(cmpIn), o \in 1..Len(cmpIn) :
          cmpDiff' = Some([winner |-> w, other |-> o,
                           val |-> calculate_performance_difference(cmpIn[w], cmpIn[o])])
    /\ UNCHANGED <<cmpIn, cmpWinner, runVars, aggVars, genVars, twin>>

CmpNext == CmpPush \/ CmpWinner \/ CmpDifference

SpecCmp == CmpInit /\ [][CmpNext]_vars

\* ------------------- SpecSink: the same run with each of the progress sinks
\* run builds QuietProgress when cli.quiet and TerminalProgress otherwise
\* (runner.rs 56-60). SpecSink runs BenchmarkRunner::run with the Quiet sink
\* and then again, on the same command line, server and answers, with the
\* Terminal sink. Export is left out: it comes after the summaries are returned.

\* What a run does apart from printing on the terminal.
Observed(l) == SelectSeq(l, LAMBDA e : e.ch # "stdout")

\* The second run gets the answers of the first: when its latest request is the
\* request the first run made at that place, the answer is the same.
SameAnswers ==
    twin # None =>
       LET o == Observed(log)
       IN  (Len(o) > 0 /\ Len(o) <= Len(twin[1].log)) =>
              LET e == o[Len(o)]
                  f == twin[1].log[Len(o)]
              IN  (e.ch = "http" /\ f.ch = "http" /\ e.ev = f.ev
                   /\ e.model = f.model /\ e.n = f.n) => e.val = f.val

SinkInit ==
    /\ RunInit
    /\ cli.quiet
    /\ cli.export = None
    /\ aggIn = <<>> /\ aggOut = None
    /\ cmpIn = <<>> /\ cmpWinner = None /\ cmpDiff = None
    /\ genIn = None /\ genOut = None /\ twin = None

\* BenchmarkRunner::new(cli).run() once more, with the other sink
Rerun ==
    /\ pc = "done"
    /\ twin = None
    /\ twin' = Some([log |-> Observed(log), ret |-> ret, summaries |-> summaries,
                     exit_code |-> exit_code])
    /\ cli' = [cli EXCEPT !.quiet = ~cli.quiet]
    /\ pc' = "run"
    /\ vi' = 1
    /\ idx' = 0
    /\ iteration' = 0
    /\ results' = <<>>
    /\ all_results' = <<>>
    /\ summaries' = <<>>
    /\ ret' = None
    /\ exit_code' = -1
    /\ inflight' = 0
    /\ log' = <<>>
    /\ UNCHANGED <<served, aggVars, cmpVars, genVars>>

SinkRunValidate == RunValidate /\ SameAnswers'
SinkHealthCheck == HealthCheck /\ SameAnswers'
SinkBenchmarkModels == BenchmarkModels /\ SameAnswers'
SinkValidateModel == ValidateModel /\ SameAnswers'
SinkStartModel == StartModel /\ SameAnswers'
SinkIterBegin == IterBegin /\ SameAnswers'
SinkGenerateReturn == GenerateReturn /\ SameAnswers'
SinkIterSleep == IterSleep /\ SameAnswers'
SinkCompleteModel == CompleteModel /\ SameAnswers'
SinkModelSleep == ModelSleep /\ SameAnswers'
SinkSummarise == Summarise /\ SameAnswers'
SinkOutputResults == OutputResults /\ SameAnswers'
SinkMain == Main /\ SameAnswers'

SinkNext ==
    \/ SinkRunValidate \/ SinkHealthCheck \/ SinkBenchmarkModels \/ SinkValidateModel
    \/ SinkStartModel \/ SinkIterBegin \/ SinkGenerateReturn \/ SinkIterSleep
    \/ SinkCompleteModel \/ SinkModelSleep \/ SinkSummarise
    \/ SinkOutputResults \/ SinkMain \/ Rerun

SpecSink == SinkInit /\ [][SinkNext]_vars

\* ------------------------------------ SpecGen: generate on any single reply
\* What the server may report in the fields generate reads (Option<i32>,
\* Option<i64>): nothing, a negative number, zero, a positive number.
GenCounts == {None, Some(-1), Some(0), Some(25)}
GenDurations == {None, Some(-5), Some(0), Some(1000000000)}
GenPromptDurations == {None, Some(-1), Some(0), Some(1500000), Some(200000000)}

GenInputs ==
    {r \in GenReplies : r.body # "json"}
    \cup {Reply("response", 200, "json", GenResponse(Some(10), ped, ec, ed)) :
             ped \in GenPromptDurations, ec \in GenCounts, ed \in GenDurations}

GenInit ==
    /\ cli = [models |-> <<>>, iterations |-> 0, quiet |-> TRUE, export |-> None]
    /\ served = {}
    /\ pc = "run" /\ vi = 1 /\ idx = 0 /\ iteration = 0
    /\ results = <<>> /\ all_results = <<>> /\ summaries = <<>>
    /\ ret = None /\ exit_code = -1 /\ inflight = 0 /\ log = <<>>
    /\ aggIn = <<>> /\ aggOut = None
    /\ cmpIn = <<>> /\ cmpWinner = None /\ cmpDiff = None
    /\ genIn = None /\ genOut = None /\ twin = None

\* send() returned (or failed)
GenReceive ==
    /\ genIn = None
    /\ \E reply \in GenInputs : genIn' = Some(reply)
    /\ UNCHANGED <<genOut, runVars, aggVars, cmpVars, twin>>

GenCall ==
    /\ genIn # None
    /\ genOut = None
    /\ genOut' = Some(generate("a", genIn[1]))
    /\ UNCHANGED <<genIn, runVars, aggVars, cmpVars, twin>>

GenNext == GenReceive \/ GenCall

SpecGen == GenInit /\ [][GenNext]_vars

\* ================================================================== claims
\* ---------------------------------------------------- reading the log
Positions(ch, ev) == {i \in 1..Len(log) : log[i].ch = ch /\ log[i].ev = ev}
GenRequests == Positions("http", "generate")
GenAnswers == Positions("http", "generate_reply")
Validations == Positions("http", "list_models")
SinkCalls == {i \in 1..Len(log) : log[i].ch = "sink"}

MinOf(S) == CHOOSE i \in S : \A j \in S : i <= j

NoSamples ==
    GenAnswers = {} /\ results = <<>> /\ all_results = <<>> /\ summaries = <<>>

\* benchmark_models returned Ok (a run has at least one model)
BenchOk == summaries # <<>>

\* The replies by kind, as the specification names them.
TransportFailure(reply) ==
    \/ reply.kind \in {"connect_err", "timeout"}
    \/ (reply.kind = "response" /\ reply.status \in 200..299 /\ reply.body # "json")
ModelMissing(reply) ==
    reply.kind = "response" /\ reply.status \notin 200..299
    /\ (reply.status = 404 \/ reply.body \in BodiesNamingModel)

\* The samples of the n-th model, from the replies to its requests, in order.
RepliesOf(n) ==
    SelectSeq(log, LAMBDA e : e.ch = "http" /\ e.ev = "generate_reply" /\ e.n = n)
RequestsOf(n) == {i \in GenRequests : log[i].n = n}

\* ----------------------------------------------------------------- C1
UnknownAt == {i \in 1..Len(cli.models) : cli.models[i] \notin served}
\* pre-flight validation read the server's list and a model was not in it
FoundUnknown ==
    \E i \in Validations : log[i].val = Some("2xx") /\ log[i].model \notin served

\* C1: when pre-flight validation finds a model the server does not list, the
\* run returns ModelNotFound naming the first unknown model in input order; and
\* whenever the input holds an unknown model, no generation request is issued
\* and no sample is collected for any model.
C1_PreflightAbort ==
    /\ FoundUnknown =>
          /\ ret = Some(Err("ModelNotFound", cli.models[MinOf(UnknownAt)]))
          /\ GenRequests = {}
          /\ NoSamples
    /\ UnknownAt # {} => GenRequests = {} /\ NoSamples

\* Scenario 3: ["known", "missing"], aborted at "missing".
C1_Witness ==
    /\ pc = "done"
    /\ FoundUnknown
    /\ Len(cli.models) = 2
    /\ cli.models[1] \in served
    /\ cli.models[2] \notin served
    /\ Cardinality(Validations) = 2

\* ----------------------------------------------------------------- C2
\* C2: a transport failure of one generation attempt (connect error, timeout,
\* malformed body) yields a failed sample that is appended to the model's
\* samples, the run goes on with the next iteration or completes the model, and
\* a run in which no reply reports the model missing benchmarks every model.
C2_TransportFailureIsASample ==
    /\ \A i \in GenAnswers :
          TransportFailure(log[i].val[1]) =>
             LET r == generate(log[i].model, log[i].val[1])
             IN  /\ r.ok
                 /\ ~r.val[1].success
                 /\ r.val[1].error # None
                 /\ i = Len(log) =>
                       /\ ret = None
                       /\ pc \in {"iter_sleep", "complete_model"}
                       /\ results # <<>>
                       /\ results[Len(results)] = r.val[1]
    /\ (pc = "done" /\ GenAnswers # {}
        /\ \A i \in GenAnswers : ~ModelMissing(log[i].val[1]))
         => /\ Len(summaries) = Len(cli.models)
            /\ Cardinality(GenAnswers) = Len(cli.models) * cli.iterations

\* A failure at the first model's first attempt, and both models summarised.
C2_Witness ==
    /\ pc = "done"
    /\ Len(cli.models) = 2
    /\ cli.iterations = 2
    /\ Len(summaries) = 2
    /\ \E i \in GenAnswers : i = MinOf(GenAnswers) /\ log[i].val[1].kind = "timeout"

\* ----------------------------------------------------------------- C3
\* C3: when benchmark_models returns Ok, every model got exactly
\* config.iterations generation requests and its summary's total_tests is
\* config.iterations, failed samples included.
C3_IterationsPerModel ==
    BenchOk =>
       \A n \in 1..Len(cli.models) :
          /\ Cardinality(RequestsOf(n)) = cli.iterations
          /\ Len(RepliesOf(n)) = cli.iterations
          /\ n <= Len(summaries)
          /\ summaries[n].total_tests = cli.iterations

\* A model with one failed and one successful sample.
C3_Witness ==
    /\ BenchOk
    /\ cli.iterations = 2
    /\ \E n \in 1..Len(cli.models) :
          /\ TransportFailure(RepliesOf(n)[1].val[1])
          /\ RepliesOf(n)[2].val[1].body = "json"

\* ----------------------------------------------------------------- C4
SamplesOf(n) ==
    LET rs == RepliesOf(n)
    IN  [j \in 1..Len(rs) |-> generate(rs[j].model, rs[j].val[1]).val[1]]

\* C4: when benchmark_models returns Ok, it returns one summary per input
\* model, the i-th being the summary of the i-th model's samples, also when a
\* name occurs twice.
C4_ResultOrder ==
    BenchOk =>
       /\ Len(summaries) = Len(cli.models)
       /\ \A n \in 1..Len(cli.models) :
             /\ summaries[n].model = cli.models[n]
             /\ summaries[n] = from_results(cli.models[n], SamplesOf(n))

\* The same name twice, with different samples.
C4_Witness ==
    /\ BenchOk
    /\ cli.models = <<"a", "a">>
    /\ summaries[1] # summaries[2]

\* ----------------------------------------------------------------- C5
HealthFailed ==
    \E i \in Positions("http", "health_check") :
       log[i].val[1] \in {"connect_err", "timeout", "other_err"}

\* C5: when the health check fails because the server cannot be reached, the
\* run returns a connectivity error, and no model validation, no call of the
\* progress sink and no generation request ever happens.
C5_HealthCheckAborts ==
    HealthFailed =>
       /\ ret # None
       /\ ~ret[1].ok
       /\ ret[1].err \in {"OllamaNotRunning", "ConnectionFailed"}
       /\ Validations = {}
       /\ SinkCalls = {}
       /\ GenRequests = {}
       /\ pc \in {"main", "done"}

C5_Witness ==
    /\ HealthFailed
    /\ pc = "done"
    /\ exit_code = 1
    /\ ret = Some(Err("OllamaNotRunning", ""))

\* ----------------------------------------------------------------- C6
\* The sink calls and generation requests made for the n-th model, in order.
ModelTrace(n) ==
    SelectSeq(log, LAMBDA e : e.n = n /\ (e.ch = "sink" \/ (e.ch = "http" /\ e.ev = "generate")))

RECURSIVE ExpectedIterations(_, _, _, _)
ExpectedIterations(model, n, k, total) ==
    IF k = 0 THEN <<>>
    ELSE ExpectedIterations(model, n, k - 1, total)
         \o <<Ev("sink", "update_progress", model, n, k, total, None),
              Ev("http", "generate", model, n, 0, 0, None)>>

ExpectedTrace(n) ==
    <<Ev("sink", "start_model", cli.models[n], n, n, Len(cli.models), None)>>
    \o ExpectedIterations(cli.models[n], n, cli.iterations, cli.iterations)
    \o <<Ev("sink", "complete_model", cli.models[n], n, 0, 0, None)>>

IsPrefix(s, t) == Len(s) <= Len(t) /\ s = SubSeq(t, 1, Len(s))

\* The model loop's part of the log never goes back to an earlier model.
ModelsInOrder ==
    \A i \in 1..(Len(log) - 1) :
       \/ log[i].n <= log[i + 1].n
       \/ \A j \in (i + 1)..Len(log) : log[j].n = 0

\* C6: for every model whose loop completed, the sink got exactly: one
\* start_model with the model's 1-based number and the number of models, then
\* update_progress with current = 1..N and total = N, each right before the
\* generation request it announces, then one complete_model; and at every
\* moment what the sink got for a model is a beginning of that sequence.
C6_ProgressEvents ==
    /\ ModelsInOrder
    /\ \A n \in 1..Len(cli.models) :
          /\ ModelTrace(n) # <<>> => IsPrefix(ModelTrace(n), ExpectedTrace(n))
          /\ (\E i \in SinkCalls : log[i].ev = "complete_model" /\ log[i].n = n)
                => ModelTrace(n) = ExpectedTrace(n)

\* Two models of two iterations each, both completed.
C6_Witness ==
    /\ pc = "done"
    /\ Len(cli.models) = 2
    /\ cli.iterations = 2
    /\ Cardinality({i \in SinkCalls : log[i].ev = "complete_model"}) = 2

\* ------------------------------------------------- from_results (SpecAgg)
One == FromInt(1)
AggSuccesses == SelectSeq(aggIn, LAMBDA r : r.success)
AggFailed == Sample("m", FALSE, Zero, 0, Some("Failed"))

SummaryFloats(s) ==
    {s.success_rate, s.avg_tokens_per_second, s.min_tokens_per_second,
     s.max_tokens_per_second, s.avg_ttft_ms}

\* ----------------------------------------------------------------- C7
\* C7: from_results returns, for every sample sequence and the empty one, a
\* summary whose total_tests is the number of samples, whose success_rate is in
\* [0, 1] (0 for the empty sequence) and none of whose fields is NaN or infinite.
C7_Total ==
    aggOut # None =>
       LET s == aggOut[1]
       IN  /\ s.total_tests = Len(aggIn)
           /\ \A x \in SummaryFloats(s) : is_finite(x)
           /\ FLeq(Zero, s.success_rate)
           /\ FLeq(s.success_rate, One)
           /\ aggIn = <<>> => s.success_rate = Zero

C7_Witness == aggOut # None /\ aggIn = <<>>

\* ----------------------------------------------------------------- C8
Speeds == {AggSuccesses[i].tokens_per_second : i \in 1..Len(AggSuccesses)}
Least(S) == CHOOSE x \in S : \A y \in S : FLeq(x, y)
Greatest(S) == CHOOSE x \in S : \A y \in S : FLeq(y, x)

SameThroughputAndTtft(s, t) ==
    /\ s.avg_tokens_per_second = t.avg_tokens_per_second
    /\ s.min_tokens_per_second = t.min_tokens_per_second
    /\ s.max_tokens_per_second = t.max_tokens_per_second
    /\ s.avg_ttft_ms = t.avg_ttft_ms

\* Scenario 1 and test_model_summary_from_results
ExampleSamples ==
    <<Sample("m", TRUE, FromInt(25), 200, None),
      Sample("m", TRUE, FromInt(30), 150, None),
      AggFailed>>
ExampleSummary ==
    [model                 |-> "m",
     total_tests           |-> 3,
     success_rate          |-> FDiv(FromInt(2), FromInt(3)),
     avg_tokens_per_second |-> FDiv(FromInt(55), FromInt(2)),
     min_tokens_per_second |-> FromInt(25),
     max_tokens_per_second |-> FromInt(30),
     avg_ttft_ms           |-> FromInt(175)]

\* C8: the average, minimum and maximum throughput and the average first-token
\* time are those of the successful samples alone: the summary of the input
\* with its failed samples removed, or with one more failed sample, has the same
\* four fields; min and max are the least and greatest successful throughput;
\* total_tests counts every sample and success_rate is successes / total; the
\* example of the specification gives 3, 2/3, 27.5, 25, 30 and 175.
C8_SuccessfulOnly ==
    aggOut # None =>
       LET s == aggOut[1]
       IN  /\ SameThroughputAndTtft(s, from_results("m", AggSuccesses))
           /\ SameThroughputAndTtft(s, from_results("m", <<AggFailed>> \o aggIn))
           /\ Speeds # {} => /\ s.min_tokens_per_second = Least(Speeds)
                             /\ s.max_tokens_per_second = Greatest(Speeds)
           /\ s.total_tests = Len(aggIn)
           /\ aggIn # <<>> =>
                 s.success_rate = FDiv(FromInt(Len(AggSuccesses)), FromInt(Len(aggIn)))
           /\ aggIn = ExampleSamples => s = ExampleSummary

C8_Witness == aggOut # None /\ aggIn = ExampleSamples

\* ----------------------------------------------------------------- C9
\* C9: for every sample sequence with at least one successful sample the
\* summary has min_tokens_per_second <= avg_tokens_per_second <=
\* max_tokens_per_second.
C9_MinAvgMax ==
    (aggOut # None /\ AggSuccesses # <<>>) =>
       /\ FLeq(aggOut[1].min_tokens_per_second, aggOut[1].avg_tokens_per_second)
       /\ FLeq(aggOut[1].avg_tokens_per_second, aggOut[1].max_tokens_per_second)

\* ----------------------------------------------------------------- C10
\* C10: when no sample is successful (all failed, or none at all) the summary
\* has success_rate 0 and average, minimum and maximum throughput and average
\* first-token time all 0, not the infinite seeds of the folds.
C10_NoSuccess ==
    (aggOut # None /\ AggSuccesses = <<>>) =>
       LET s == aggOut[1]
       IN  \A x \in SummaryFloats(s) : x = Zero

C10_Witness ==
    /\ aggOut # None
    /\ Len(aggIn) >= 2
    /\ \A i \in 1..Len(aggIn) : ~aggIn[i].success

\* ------------------------------------------------ the comparator (SpecCmp)
\* The positions of the summaries with success_rate > 0.
CmpSuccessful == {i \in 1..Len(cmpIn) : FGreater(cmpIn[i].success_rate, Zero)}

DistinctThroughputs ==
    \A i, j \in CmpSuccessful :
       i # j => cmpIn[i].avg_tokens_per_second # cmpIn[j].avg_tokens_per_second

\* The input in another order: position i holds what was at position p[i].
Permuted(p) == [i \in 1..Len(cmpIn) |-> cmpIn[p[i]]]

\* ----------------------------------------------------------------- C11
\* C11: calculate_winner returns None when the input is empty or no summary has
\* success_rate > 0; otherwise it returns a summary of the input with
\* success_rate > 0 whose avg_tokens_per_second is >= that of every other such
\* summary; and when those throughputs are pairwise distinct, every reordering
\* of the input has the same summary as its winner.
C11_Winner ==
    cmpWinner # None =>
       LET w == cmpWinner[1]
       IN  /\ CmpSuccessful = {} => w = None
           /\ CmpSuccessful # {} =>
                 /\ w # None
                 /\ w[1] \in CmpSuccessful
                 /\ \A j \in CmpSuccessful :
                       FLeq(cmpIn[j].avg_tokens_per_second,
                            cmpIn[w[1]].avg_tokens_per_second)
           /\ (CmpSuccessful # {} /\ DistinctThroughputs) =>
                 \A p \in Permutations(1..Len(cmpIn)) :
                    LET v == calculate_winner(Permuted(p))
                    IN  v # None /\ p[v[1]] = w[1]

\* Scenario of test_calculate_winner, with a summary without success added.
C11_Witness ==
    /\ cmpIn = <<Summary(1, 25, 200), Summary(1, 30, 150), Summary(0, 0, 0)>>
    /\ cmpWinner = Some(Some(2))

\* ----------------------------------------------------------------- C12
\* C12: when several summaries with success_rate > 0 share the maximum
\* avg_tokens_per_second, calculate_winner returns the one that comes first in
\* the input.
C12_FirstMaximumWins ==
    (cmpWinner # None /\ cmpWinner[1] # None) =>
       LET w == cmpWinner[1][1]
       IN  \A j \in CmpSuccessful :
              cmpIn[j].avg_tokens_per_second = cmpIn[w].avg_tokens_per_second
                 => w <= j

\* ----------------------------------------------------------------- C13
Hundred == FromInt(100)

\* C13: calculate_performance_difference(winner, other) returns
\* speed_diff = (winner.avg_tps - other.avg_tps) / other.avg_tps * 100, or 0 when
\* other.avg_tps is 0, and ttft_diff = (other.avg_ttft - winner.avg_ttft) /
\* other.avg_ttft * 100, or 0 when other.avg_ttft is 0; neither is NaN or infinite;
\* a summary compared with itself gives (0, 0); a slower winner gives a negative
\* speed_diff and a winner later to its first token a negative ttft_diff; and
\* 30 against 25 tokens/s with 150 against 200 ms gives (20, 25).
C13_PerformanceDifference ==
    cmpDiff # None =>
       LET w  == cmpIn[cmpDiff[1].winner]
           o  == cmpIn[cmpDiff[1].other]
           d  == cmpDiff[1].val
           wt == w.avg_tokens_per_second
           ot == o.avg_tokens_per_second
           wf == w.avg_ttft_ms
           of == o.avg_ttft_ms
       IN  /\ is_finite(d[1]) /\ is_finite(d[2])
           /\ d[1] = IF ot = Zero THEN Zero
                     ELSE FMul(FDiv(FSub(wt, ot), ot), Hundred)
           /\ d[2] = IF of = Zero THEN Zero
                     ELSE FMul(FDiv(FSub(of, wf), of), Hundred)
           /\ w = o => d = <<Zero, Zero>>
           /\ FLess(wt, ot) => FLess(d[1], Zero)
           /\ FLess(of, wf) /\ of # Zero => FLess(d[2], Zero)
           /\ (wt = FromInt(30) /\ ot = FromInt(25) /\ wf = FromInt(150)
               /\ of = FromInt(200)) => d = <<FromInt(20), FromInt(25)>>

\* Scenario 2 and test_calculate_performance_difference
C13_Witness ==
    /\ cmpDiff # None
    /\ cmpIn[cmpDiff[1].winner] = Summary(1, 30, 150)
    /\ cmpIn[cmpDiff[1].other] = Summary(1, 25, 200)
    /\ cmpDiff[1].val = <<FromInt(20), FromInt(25)>>

\* ----------------------------------------------------------------- C14
\* A reply that says the model is missing: HTTP 404, or a body saying so.
ModelNotFoundSignal(reply) ==
    /\ reply.kind = "response"
    /\ reply.status \notin 200..299
    /\ (reply.status = 404 \/ reply.body = "model 'x' not found, try pulling it first")

\* C14: when a generation request of a run whose pre-flight validation passed is
\* answered with a model-not-found signal, at whatever model and iteration, the
\* run returns ModelNotFound naming that model, and nothing more happens in the
\* model loop: no generation request, sink call or sleep follows the answer, no
\* sample is added for it and no summary is built.
C14_MidRunModelNotFound ==
    \A i \in GenAnswers :
       ModelNotFoundSignal(log[i].val[1]) =>
          /\ ret = Some(Err("ModelNotFound", log[i].model))
          /\ log[i].model = cli.models[log[i].n]
          /\ pc \in {"main", "done"}
          /\ \A j \in (i + 1)..Len(log) : log[j].ch = "stderr"
          /\ Len(results) = Cardinality({j \in GenAnswers : log[j].n = log[i].n}) - 1
          /\ summaries = <<>>

\* The second model goes missing at its second iteration.
C14_Witness ==
    /\ pc = "done"
    /\ Len(cli.models) = 2
    /\ cli.iterations = 2
    /\ Cardinality(GenAnswers) = 4
    /\ \E i \in GenAnswers : log[i].n = 2 /\ log[i].val[1].status = 404
    /\ ret = Some(Err("ModelNotFound", cli.models[2]))

\* ----------------------------------------------------------------- C15
\* What makes a run end with a run-level error before its results exist.
InvalidConfig == ~run_validate(cli).ok
HealthCheckError ==
    \E i \in Positions("http", "health_check") : ~health_check(log[i].val[1]).ok
PreflightFailure ==
    \E i \in Validations : log[i].val # Some("2xx") \/ log[i].model \notin served
MidRunAbort == \E i \in GenAnswers : ModelMissing(log[i].val[1])

Outputs ==
    Positions("stdout", "output_results") \cup Positions("file", "export")
    \cup Positions("stdout", "exported")

\* C15: when the configuration is invalid, the health check fails, pre-flight
\* validation fails or a generation request aborts the run (also after earlier
\* models completed all their iterations), run returns an error, no summary is
\* built, output_results and export_results are never reached, nothing is
\* printed or exported, and the process exits with a non-zero code.
C15_NoOutputOnError ==
    /\ (HealthCheckError \/ PreflightFailure \/ MidRunAbort) =>
          /\ ret # None /\ ~ret[1].ok
          /\ pc \in {"main", "done"}
    /\ (InvalidConfig \/ HealthCheckError \/ PreflightFailure \/ MidRunAbort) =>
          /\ summaries = <<>>
          /\ Outputs = {}
          /\ pc \notin {"summaries", "output_results", "export_results"}
          /\ pc = "done" => (exit_code = 1 /\ ~ret[1].ok
                             /\ log[Len(log)].ch = "stderr")

\* The first model completed both iterations, the second one aborted the run.
C15_Witness ==
    /\ pc = "done"
    /\ MidRunAbort
    /\ Len(all_results) = 1
    /\ Len(all_results[1][2]) = 2
    /\ exit_code = 1

\* ----------------------------------------------------------------- C16
\* The models whose model-started event the sink got.
Started == {log[i].n : i \in {j \in SinkCalls : log[j].ev = "start_model"}}
Completed == {log[i].n : i \in {j \in SinkCalls : log[j].ev = "complete_model"}}

\* C16 as stated: once the model after the n-th has started, the summary of the
\* n-th model has been computed and is the n-th of the result sequence.
C16_SummaryImmediately ==
    \A n \in 1..Len(cli.models) :
       (n + 1) \in Started =>
          /\ Len(summaries) >= n
          /\ summaries[n] = from_results(cli.models[n], SamplesOf(n))

\* C16 as amended: once the model after the n-th has started, the samples of the
\* n-th model are the n-th entry of the collected results, appended right after
\* its model-complete event; no summary exists before the last model completed,
\* and then the summaries of all models are computed together, in input order.
C16_SummariesAfterLastModel ==
    /\ \A n \in 1..Len(cli.models) :
          ((n + 1) \in Started \/ (n \in Completed /\ pc # "complete_model")) =>
             /\ Len(all_results) >= n
             /\ all_results[n] = <<cli.models[n], SamplesOf(n)>>
    /\ pc \in {"start_model", "iterate", "generate", "iter_sleep", "complete_model",
               "model_sleep", "summaries"} => summaries = <<>>
    /\ summaries # <<>> =>
          /\ Completed = 1..Len(cli.models)
          /\ Len(summaries) = Len(all_results)

\* The second model is being benchmarked and the first has no summary yet.
C16_Witness ==
    /\ pc = "generate"
    /\ idx = 1
    /\ Len(all_results) = 1
    /\ Len(all_results[1][2]) = 2
    /\ summaries = <<>>

\* ----------------------------------------------------------------- C17
Before(S, i) == {j \in S : j < i}

\* C17: at most one generation request is in flight at any moment; a request is
\* issued only when every earlier request was answered and its sample appended;
\* and the first request of a model is issued only after the model before it got
\* the answers to all its iterations and its model-complete event.
C17_Sequential ==
    /\ inflight \in {0, 1}
    /\ inflight = Cardinality(GenRequests) - Cardinality(GenAnswers)
    /\ inflight = 1 <=> pc = "generate"
    /\ pc = "generate" => Len(results) = iteration
    /\ \A i \in GenRequests :
          /\ Cardinality(Before(GenRequests, i)) = Cardinality(Before(GenAnswers, i))
          /\ log[i].n > 1 =>
                \E c \in Before(SinkCalls, i) :
                   /\ log[c].ev = "complete_model"
                   /\ log[c].n = log[i].n - 1
                   /\ Cardinality({j \in Before(GenAnswers, c) : log[j].n = log[i].n - 1})
                         = cli.iterations

\* Two models of two iterations: four requests, one after the other.
C17_Witness ==
    /\ pc = "done"
    /\ Len(cli.models) = 2
    /\ cli.iterations = 2
    /\ Cardinality(GenRequests) = 4
    /\ Cardinality(GenAnswers) = 4
    /\ inflight = 0

\* ----------------------------------------------------------------- C18
IsRequest(e) == e.ch = "http" /\ e.ev = "generate"
IsIterationDelay(e) == e.ch = "sleep" /\ e.a = 100
IsModelDelay(e) == e.ch = "sleep" /\ e.a = 500
Sleeps == {i \in 1..Len(log) : log[i].ch = "sleep"}

\* The generation requests and inter-iteration delays of the n-th model, in order.
IterationPacing(n) ==
    SelectSeq(log, LAMBDA e : e.n = n /\ (IsRequest(e) \/ IsIterationDelay(e)))

\* The model-started and model-complete events and the inter-model delays.
ModelPacing ==
    SelectSeq(log, LAMBDA e : IsModelDelay(e)
                              \/ (e.ch = "sink" /\ e.ev \in {"start_model", "complete_model"}))

\* C18: the requests and inter-iteration delays of a model alternate, starting
\* with a request, and a completed model of N iterations has N requests and N-1
\* delays, the last of them a request; the models and inter-model delays follow
\* the pattern started(1), complete(1), delay, started(2), complete(2), delay,
\* ..., and a run that completed its M models has M-1 inter-model delays, none
\* after the last model; there is no other delay.
C18_PacingDelays ==
    /\ \A i \in Sleeps : IsIterationDelay(log[i]) \/ IsModelDelay(log[i])
    /\ \A n \in 1..Len(cli.models) :
          LET t == IterationPacing(n)
          IN  /\ \A k \in 1..Len(t) :
                    IF k % 2 = 1 THEN IsRequest(t[k]) ELSE IsIterationDelay(t[k])
              /\ n \in Completed =>
                    /\ Len(t) = 2 * cli.iterations - 1
                    /\ Cardinality({i \in Sleeps : IsIterationDelay(log[i]) /\ log[i].n = n})
                          = cli.iterations - 1
    /\ LET u == ModelPacing
       IN  /\ \A k \in 1..Len(u) :
                 IF k % 3 = 1 THEN u[k].ev = "start_model" /\ u[k].n = (k + 2) \div 3
                 ELSE IF k % 3 = 2 THEN u[k].ev = "complete_model" /\ u[k].n = (k + 1) \div 3
                 ELSE IsModelDelay(u[k]) /\ u[k].n = k \div 3
           /\ (Len(cli.models) >= 1 /\ Completed = 1..Len(cli.models)) =>
                 /\ Len(u) = 3 * Len(cli.models) - 1
                 /\ Cardinality({i \in Sleeps : IsModelDelay(log[i])}) = Len(cli.models) - 1

\* Two models of two iterations: one delay inside each model, one between them.
C18_Witness ==
    /\ pc = "done"
    /\ Len(cli.models) = 2
    /\ cli.iterations = 2
    /\ Completed = {1, 2}
    /\ Cardinality({i \in Sleeps : IsIterationDelay(log[i])}) = 2
    /\ Cardinality({i \in Sleeps : IsModelDelay(log[i])}) = 1

\* ----------------------------------------------------------------- C19
\* C19: a non-2xx answer to a generation request makes generate return
\* ModelNotFound, and the run abort, exactly when it is a model-not-found signal
\* (HTTP 404, or a body saying the model is unknown); after any other non-2xx
\* answer a failed sample is appended and the run goes on.
C19_EscalationOnlyWhenMissing ==
    \A i \in GenAnswers :
       LET reply == log[i].val[1]
       IN  (reply.kind = "response" /\ reply.status \notin 200..299) =>
              IF ModelNotFoundSignal(reply)
              THEN ret = Some(Err("ModelNotFound", log[i].model))
              ELSE /\ ret # Some(Err("ModelNotFound", log[i].model))
                   /\ i = Len(log) =>
                         /\ ret = None
                         /\ pc \in {"iter_sleep", "complete_model"}
                         /\ results # <<>>
                         /\ ~results[Len(results)].success

\* ----------------------------------------------------------------- C20
\* Every sample generate returned in the run so far.
ReturnedSamples ==
    {results[i] : i \in 1..Len(results)}
    \cup UNION {{all_results[n][2][i] : i \in 1..Len(all_results[n][2])} :
                n \in 1..Len(all_results)}

\* C20: every sample returned by generate with success = false has
\* tokens_per_second 0 and time_to_first_token_ms 0, and a sample has an error
\* exactly when its success is false.
C20_SampleInvariant ==
    \A s \in ReturnedSamples :
       /\ ~s.success => (s.tokens_per_second = Zero /\ s.time_to_first_token_ms = 0)
       /\ (s.error # None) <=> ~s.success

\* A model with a failed and a successful sample.
C20_Witness ==
    /\ Len(results) = 2
    /\ ~results[1].success
    /\ results[2].success
    /\ results[2].tokens_per_second # Zero

InvalidIterations == cli.iterations = 0 \/ cli.iterations > 1000

\* C22: with an iteration count of 0 or above 1000 the first step of run returns
\* a configuration error: no health check, no model validation, no sink call and
\* no generation request is ever made, the process exits with 1; and the model
\* loop is only ever entered with iterations between 1 and 1000.
C22_InvalidConfigAborts ==
    /\ InvalidIterations =>
          /\ pc \in {"run", "main", "done"}
          /\ pc # "run" => /\ ret # None
                           /\ ~ret[1].ok
                           /\ ret[1].err = "ConfigError"
          /\ Positions("http", "health_check") = {}
          /\ Validations = {}
          /\ GenRequests = {}
          /\ SinkCalls = {}
          /\ pc = "done" => exit_code = 1
    /\ pc \in {"start_model", "iterate", "generate", "iter_sleep", "complete_model"}
          => cli.iterations \in 1..1000

\* Zero iterations for two known models: the run is over with a ConfigError.
C22_Witness ==
    /\ cli.iterations = 0
    /\ Len(cli.models) = 2
    /\ \A i \in 1..2 : cli.models[i] \in served
    /\ pc = "done"
    /\ ret = Some(Err("ConfigError", "Iterations must be greater than 0"))
    /\ exit_code = 1

\* ----------------------------------------------------------------- C23
\* The samples of aggIn in another order: position i holds what was at p[i].
Reordered(p) == [i \in 1..Len(aggIn) |-> aggIn[p[i]]]

\* C23: from_results returns the same summary (total_tests, success_rate,
\* average, minimum and maximum throughput, average first-token time) for every
\* permutation of the same samples.
C23_OrderIndependent ==
    aggOut # None =>
       \A p \in Permutations(1..Len(aggIn)) :
          from_results("m", Reordered(p)) = aggOut[1]

\* ----------------------------------------------------------------- C24
\* C24: for a successful generation response, time_to_first_token_ms is the
\* reported prompt_eval_duration divided by 1,000,000 (0 if not reported), and
\* tokens_per_second is eval_count * 1e9 / eval_duration when the reported
\* eval_count and eval_duration are both positive, and 0 in every other case
\* (either one missing, zero or negative).
C24_Metrics ==
    (genOut # None /\ genOut[1].ok /\ genOut[1].val[1].success) =>
       LET r   == genIn[1].json
           s   == genOut[1].val[1]
           ped == r.prompt_eval_duration
           ec  == unwrap_or(r.eval_count, 0)
           ed  == unwrap_or(r.eval_duration, 0)
       IN  /\ ped = None => s.time_to_first_token_ms = 0
           /\ (ped # None /\ ped[1] >= 0) =>
                 s.time_to_first_token_ms = ped[1] \div 1000000
           /\ s.tokens_per_second =
                 IF ec > 0 /\ ed > 0
                 THEN FDiv(FMul(FromInt(ec), FromInt(1000000000)), FromInt(ed))
                 ELSE Zero

\* ----------------------------------------------------------------- C25
\* C25: the boolean health_check returns is not consulted. A health check
\* answered with a non-success HTTP status does not abort: the run goes on to
\* model validation. Only a transport error of the health check aborts the
\* run at this step, with a connection error and before any validation or
\* generation request.
C25_HealthStatusIgnored ==
    \A i \in Positions("http", "health_check") :
       LET o == log[i].val[1]
       IN  /\ o = "non2xx" =>
                /\ i = Len(log) => (pc = "benchmark_models" /\ ret = None)
                /\ pc = "done" => Validations # {}
           /\ o \in {"connect_err", "timeout"} =>
                /\ pc \in {"main", "done"}
                /\ ret # None /\ ~ret[1].ok
                /\ ret[1].err \in {"OllamaNotRunning", "ConnectionFailed"}
                /\ Validations = {} /\ GenRequests = {} /\ summaries = <<>>

\* The server answered the health check with a non-success status and every
\* model was benchmarked all the same.
C25_Witness ==
    /\ pc = "done"
    /\ \E i \in Positions("http", "health_check") : log[i].val[1] = "non2xx"
    /\ ret # None /\ ret[1].ok
    /\ Len(summaries) = Len(cli.models)
    /\ GenRequests # {}

\* ----------------------------------------------------------------- C26
\* C26: every run terminates. When every client call and every pacing delay
\* returns, run eventually finishes, either with a run-level error or with the
\* summaries of all models, and at no time has it sent more than
\* models x iterations generation requests.
Finished ==
    /\ pc = "done"
    /\ ret # None
    /\ ret[1].ok => Len(summaries) = Len(cli.models)
    /\ inflight = 0

RequestBound == Cardinality(GenRequests) <= Len(cli.models) * cli.iterations

C26_Terminates == <>Finished /\ []RequestBound

\* A finished run that needed every one of its models x iterations requests.
C26_Witness ==
    /\ Finished
    /\ ret[1].ok
    /\ Len(cli.models) = MaxModels
    /\ cli.iterations > 1
    /\ Cardinality(GenRequests) = Len(cli.models) * cli.iterations

====
